---------------------------- MODULE Spec2Model ----------------------------
(***************************************************************************)
(* Wallet snapshot + recent buys proxy (booradleybtc/birdeye).             *)
(*                                                                         *)
(* The repository holds several successive versions of one service, each   *)
(* a complete program with its own globals:                                *)
(*   first variant   src/index.js 1-226      (Birdeye prices, 10 s cache)  *)
(*   second variant  src/index.js 228-609    (Jupiter -> Birdeye prices)   *)
(*   part_000 71-383 src/unnamed/part_000    (raw RPC, per-mint prices)    *)
(* Each variant is modelled by its own specification over shared           *)
(* request/response variables:                                             *)
(*   SpecPrices  getPrices of the second variant, one provider call a step *)
(*   Spec        the second variant's /wallet and /buys handlers           *)
(*   SpecV1      the first variant's /wallet handler                       *)
(*   SpecV4      part_000's /wallet and /buys handlers                     *)
(*                                                                         *)
(* JavaScript numbers are modelled by integers.  A value that JSON shows   *)
(* as a number or as nothing (undefined, null) is an optional: <<>> is     *)
(* absent, <<n>> is the number n.                                          *)
(***************************************************************************)
EXTENDS Integers, Sequences, FiniteSets, TLC

None == << >>
Some(v) == << v >>
IsSome(o) == Len(o) = 1
Val(o) == o[1]

\* x || 0 on an optional number
OrZero(o) == IF IsSome(o) THEN Val(o) ELSE 0

Min(a, b) == IF a < b THEN a ELSE b
Max(a, b) == IF a > b THEN a ELSE b

RECURSIVE SumSeq(_)
SumSeq(s) == IF Len(s) = 0 THEN 0 ELSE Head(s) + SumSeq(Tail(s))

Range(s) == { s[k] : k \in DOMAIN s }

\* Array.prototype.slice(0, end) for an integer end
Slice0(s, end) ==
  LET n == Len(s)
      e == IF end < 0 THEN Max(n + end, 0) ELSE Min(end, n)
  IN  SubSeq(s, 1, e)

(***************************************************************************)
(* Bounds of the model                                                     *)
(***************************************************************************)
\* longest mint list handed to getPrices in SpecPrices
MaxMints == 3
\* BATCH is 50 in the source (src/index.js:344); it is scaled down so that
\* MaxMints mints span more than one batch
BATCH == 2

(***************************************************************************)
(* State                                                                   *)
(***************************************************************************)
VARIABLES
  heliusKey,    \* Boolean(HELIUS_API_KEY) of the second variant's process
  birdeyeKey,   \* Boolean(BIRDEYE_API_KEY) of the second variant's process
  now,          \* Date.now()
  jupMap,       \* second variant: the token metadata map, None while null
  jupLoadedAt,  \* second variant: when jupMap was last loaded
  cache,        \* first variant and part_000: the in-memory response cache
  pc,           \* "idle" between requests, "done" once the response is sent
  req,          \* the request being answered
  res,          \* the response: [status, body]
  loc,          \* the handler's locals when it answered
  calls,        \* the upstream calls made for this request
  gp,           \* getPrices in SpecPrices: [pc, uniq, i, out, missing]
  gh,           \* history of that call: what each provider returned and when
  rf            \* SpecRefresh: the Map objects and the /wallet handlers in flight

hVars ==
  << heliusKey, birdeyeKey, now, jupMap, jupLoadedAt, cache, pc, req, res, loc, calls, rf >>
vars == << hVars, gp, gh >>

WSOL == "So11111111111111111111111111111111111111112"
Mints == { "m1", "m2", "m3" }

(***************************************************************************)
(* Second variant: getPrices (src/index.js 341-390)                        *)
(***************************************************************************)
\* [...new Set((mints || []).filter(Boolean))]: falsy entries ("" here) are
\* dropped, duplicates keep their first position
RECURSIVE UniqFrom(_, _)
UniqFrom(mints, acc) ==
  IF Len(mints) = 0 THEN acc
  ELSE LET m == Head(mints)
       IN  UniqFrom(Tail(mints),
                    IF m = "" \/ m \in Range(acc) THEN acc ELSE Append(acc, m))
Uniq(mints) == UniqFrom(mints, << >>)

\* uniq.slice(i, i + BATCH), i counted from 0
Chunk(uniq, i) == SubSeq(uniq, i + 1, Min(i + BATCH, Len(uniq)))

\* A provider call: it throws (network error, timeout, 429/5xx after the retry)
\* or returns a body; data maps each key of the body to Number(<its price>),
\* absent when that is not finite.
Thrown == [ok |-> FALSE, data |-> << >>]
Body(data) == [ok |-> TRUE, data |-> data]

\* out[k] == null
IsNull(out, k) == k \notin DOMAIN out

PutAll(out, data, keys) ==
  [k \in DOMAIN out \cup keys |-> IF k \in keys THEN Val(data[k]) ELSE out[k]]

\* jup(chunk): every finite price of the body is assigned, keyed by the body's key
JupApply(out, resp) ==
  IF ~resp.ok THEN out
  ELSE PutAll(out, resp.data, { k \in DOMAIN resp.data : IsSome(resp.data[k]) })

\* birdeye(chunk): returns at once without a key or with an empty chunk; a finite
\* price is assigned only where out[k] == null
BirdeyeCalls(key, chunk) == key /\ Len(chunk) > 0

\* the body of the secondary provider is not read
BirdeyeMutIgnoresBody(out, resp, key, chunk) == out

BirdeyeMutOverwrite(out, resp, key, chunk) ==
  IF ~BirdeyeCalls(key, chunk) \/ ~resp.ok THEN out
  ELSE PutAll(out, resp.data, { k \in DOMAIN resp.data : IsSome(resp.data[k]) })
BirdeyeApply(out, resp, key, chunk) ==
  IF ~BirdeyeCalls(key, chunk) \/ ~resp.ok THEN out
  ELSE PutAll(out, resp.data,
              { k \in DOMAIN resp.data : IsSome(resp.data[k]) /\ IsNull(out, k) })

\* the whole chunk, priced or not
MissingMutWholeChunk(out, chunk) == chunk

\* chunk.filter((m) => out[m] == null)
Missing(out, chunk) == SelectSeq(chunk, LAMBDA m : IsNull(out, m))

\* The try/catch of jup and of birdeye: a failed call is logged and the helper
\* returns normally, so nothing propagates into the batch loop.
ProviderExitNoCatch(resp) == IF resp.ok THEN "returned" ELSE "thrown"
ProviderExit(resp) == "returned"

\* Bodies a provider may answer with: any keys (requested or not), each price
\* finite or not.  The primary answers PrimaryPx, the secondary SecondaryPx, so
\* that a value in out tells which provider it came from.
PrimaryPx == { 1, 3 }
SecondaryPx == { 2 }
Bodies(px) ==
  UNION { [S -> { None } \cup { Some(p) : p \in px }] : S \in SUBSET Mints }
Responses(px) == { Thrown } \cup { Body(d) : d \in Bodies(px) }

RECURSIVE SeqsUpTo(_, _)
SeqsUpTo(S, n) ==
  IF n = 0 THEN { << >> }
  ELSE LET shorter == SeqsUpTo(S, n - 1)
       IN  shorter \cup { Append(s, x) : s \in shorter, x \in S }

\* no Map object yet, every handler idle (used by SpecRefresh only)
MaxProcs == 2
Procs == 1..MaxProcs
RfIdle == [pc |-> "idle", ref |-> 0, got |-> << >>, seen |-> << >>, started |-> {}]
RfInit == [heap |-> << >>, procs |-> [p \in Procs |-> RfIdle]]

GpIdle == [pc |-> "idle", uniq |-> << >>, i |-> 0, out |-> << >>, missing |-> << >>]
GhInit == [pLast |-> << >>, sLast |-> << >>, failed |-> {}, jupCalls |-> 0,
           beCalls |-> << >>]

\* the last finite price a provider returned for each key during this call
Noted(last, resp) ==
  IF ~resp.ok THEN last
  ELSE PutAll(last, resp.data, { k \in DOMAIN resp.data : IsSome(resp.data[k]) })

\* getPrices(mints) is entered: uniq, out = {}, i = 0
GpCall ==
  /\ gp.pc = "idle"
  /\ \E mints \in SeqsUpTo(Mints \cup { "" }, MaxMints) :
       LET u == Uniq(mints)
       IN  gp' = [pc |-> IF Len(u) > 0 THEN "jup" ELSE "done",
                  uniq |-> u, i |-> 0, out |-> << >>, missing |-> << >>]
  /\ gh' = GhInit
  /\ UNCHANGED hVars

\* the loop's i += BATCH and its test i < uniq.length
GpAdvance(g) ==
  [g EXCEPT !.i = g.i + BATCH,
            !.pc = IF g.i + BATCH < Len(g.uniq) THEN "jup" ELSE "done"]

\* await jup(chunk); const missing = chunk.filter(...); if (missing.length) ...
GpJup ==
  /\ gp.pc = "jup"
  /\ \E resp \in Responses(PrimaryPx) :
       LET chunk == Chunk(gp.uniq, gp.i)
           o == JupApply(gp.out, resp)
           miss == Missing(o, chunk)
       IN  /\ gp' = IF ProviderExit(resp) = "thrown"
                     THEN [gp EXCEPT !.pc = "thrown"]
                     ELSE IF Len(miss) > 0
                          THEN [gp EXCEPT !.out = o, !.missing = miss, !.pc = "birdeye"]
                          ELSE GpAdvance([gp EXCEPT !.out = o, !.missing = miss])
           /\ gh' = [gh EXCEPT !.pLast = Noted(gh.pLast, resp),
                               !.jupCalls = gh.jupCalls + 1,
                               !.failed = IF resp.ok THEN gh.failed
                                          ELSE gh.failed \cup { << "jup", gp.i >> }]
  /\ UNCHANGED hVars

\* await birdeye(missing): without a key no request is made
GpBirdeye ==
  /\ gp.pc = "birdeye"
  /\ \E resp \in IF BirdeyeCalls(birdeyeKey, gp.missing)
                  THEN Responses(SecondaryPx) ELSE { Thrown } :
       LET called == BirdeyeCalls(birdeyeKey, gp.missing)
           o == BirdeyeApply(gp.out, resp, birdeyeKey, gp.missing)
       IN  /\ gp' = IF called /\ ProviderExit(resp) = "thrown"
                     THEN [gp EXCEPT !.pc = "thrown"]
                     ELSE GpAdvance([gp EXCEPT !.out = o])
           /\ gh' = IF called
                     THEN [gh EXCEPT !.sLast = Noted(gh.sLast, resp),
                                     !.beCalls = Append(gh.beCalls, gp.missing),
                                     !.failed = IF resp.ok THEN gh.failed
                                                ELSE gh.failed \cup { << "birdeye", gp.i >> }]
                     ELSE gh
  /\ UNCHANGED hVars

\* return out; the caller has the mapping and the next call may start
GpReturn ==
  /\ gp.pc = "done"
  /\ gp' = GpIdle
  /\ gh' = GhInit
  /\ UNCHANGED hVars

(***************************************************************************)
(* getPrices as one call, for the request handlers.  A provider is down    *)
(* (every call throws) or answers from a price table: the body holds the   *)
(* requested keys the table prices.                                        *)
(***************************************************************************)
Answer(provider, chunk) ==
  IF ~provider.up THEN Thrown
  ELSE Body([k \in { c \in Range(chunk) : IsSome(provider.tab[c]) } |-> provider.tab[k]])

\* the batch loop from index i on; calls collects the providers that were asked
RECURSIVE GetPricesFrom(_, _, _, _, _)
GetPricesFrom(uniq, i, acc, env, key) ==
  IF i >= Len(uniq) THEN acc
  ELSE LET chunk == Chunk(uniq, i)
           o1 == JupApply(acc.out, Answer(env.jup, chunk))
           miss == Missing(o1, chunk)
           asked == Len(miss) > 0 /\ BirdeyeCalls(key, miss)
           o2 == IF Len(miss) > 0
                 THEN BirdeyeApply(o1, Answer(env.be, miss), key, miss)
                 ELSE o1
       IN  GetPricesFrom(uniq, i + BATCH,
                         [out |-> o2,
                          calls |-> acc.calls \cup { "jup" }
                                      \cup (IF asked THEN { "birdeye" } ELSE {})],
                         env, key)

GetPrices(mints, env, key) ==
  GetPricesFrom(Uniq(mints), 0, [out |-> << >>, calls |-> {}], env, key)

(***************************************************************************)
(* Requests, responses and the upstreams of one request                    *)
(***************************************************************************)
\* bounds of the wallet inputs
MaxAccts == 2
\* Date.now() when the process starts, in ms (any value above every TTL)
Epoch == 2000000

JUP_TTL_MS == 1800000
LAMPORTS_PER_SOL == 1000000000

\* the mints a wallet holds in the model
WMints == { "m1", "m2" }

\* req.query.address as sent: missing or empty, blank, not a public key, valid
Addresses == { "", " ", "bad", "A" }
\* String(x).trim()
Trim(s) == IF s = " " THEN "" ELSE s
\* new PublicKey(ownerStr) throws on a string that is no base58 public key
ValidKey(s) == s = "A"

\* Number(req.query.p ?? dflt) for a numeric query parameter sent or not
NumberOr(q, dflt) == IF IsSome(q) THEN Val(q) ELSE dflt

\* token accounts as the RPC returns them: info.mint and tokenAmount.uiAmount
\* (a missing mint is ""), decimals being a function of the mint
Decimals(m) == IF m = "m1" THEN 6 ELSE 9
Acct(m, a) == [mint |-> m, amount |-> a]
AcctVals == { Acct("m1", 1), Acct("m2", 2), Acct("m1", 0) }
AcctLists == SeqsUpTo(AcctVals, MaxAccts)
\* an RPC call: it fails (or times out) or returns a value
RpcFail == [ok |-> FALSE, value |-> << >>]
RpcOk(v) == [ok |-> TRUE, value |-> v]

\* the token list of token.jup.ag: address -> symbol (standing for symbol, name
\* and logoURI)
TokenList == [m \in { "m1" } |-> "S1"]
EmptyMap == [m \in {} |-> ""]
\* jmap.get(mint) || {}, then meta.symbol || ""
Symbol(jmap, m) == IF m \in DOMAIN jmap THEN jmap[m] ELSE ""

\* price providers of one request
ProviderDown == [up |-> FALSE, tab |-> << >>]
Provider(tab) == [up |-> TRUE, tab |-> tab]
JupTables ==
  { [m \in WMints \cup { WSOL } |->
       IF m = "m1" THEN a ELSE IF m = "m2" THEN b ELSE c] :
    a \in { None, Some(0), Some(1) }, b \in { None, Some(1) }, c \in { None, Some(2) } }
BeTable == [m \in WMints \cup { WSOL } |-> Some(3)]
PriceEnvs ==
  { [jup |-> Provider(t), be |-> Provider(BeTable)] : t \in JupTables }
    \cup { [jup |-> ProviderDown, be |-> ProviderDown] }

NoReq == [route |-> "none"]
NoRes == [status |-> 0, body |-> [kind |-> "none"]]
NoLoc == [kind |-> "none"]

(***************************************************************************)
(* Second variant: getJupMap (src/index.js 311-338)                        *)
(***************************************************************************)
\* outcomes of fetchJson("https://token.jup.ag/all"): it throws, or returns a
\* body that is no array, or the token list
ListThrown == [ok |-> FALSE, isArray |-> FALSE, list |-> EmptyMap]
ListNotArray == [ok |-> TRUE, isArray |-> FALSE, list |-> EmptyMap]
ListBody == [ok |-> TRUE, isArray |-> TRUE, list |-> TokenList]
ListOutcomes == { ListThrown, ListNotArray, ListBody }

JupFresh == IsSome(jupMap) /\ now - jupLoadedAt < JUP_TTL_MS

\* the state getJupMap leaves: [map, loadedAt, fetched]
GetJupMap(fetch) ==
  IF JupFresh THEN [map |-> jupMap, loadedAt |-> jupLoadedAt, fetched |-> FALSE]
  ELSE IF fetch.ok
       THEN [map |-> Some(IF fetch.isArray THEN fetch.list ELSE EmptyMap),
             loadedAt |-> now, fetched |-> TRUE]
       ELSE [map |-> IF IsSome(jupMap) THEN jupMap ELSE Some(EmptyMap),
             loadedAt |-> jupLoadedAt, fetched |-> TRUE]

(***************************************************************************)
(* Snapshot rows.  A row is [mint, symbol, amount, decimals, price, usd];  *)
(* price stands for the row's priceUsd (price in part_000).                *)
(***************************************************************************)
\* accounts.map(...).filter((t) => t?.mint && t.amount > 0)
TokensRaw(accounts) == SelectSeq(accounts, LAMBDA t : t.mint # "" /\ t.amount > 0)

MintsOf(rows) == [k \in DOMAIN rows |-> rows[k].mint]

\* the sort keys of the comparators: (t.usd || 0) and t.amount
KeyOf(r, field) == IF field = "usd" THEN OrZero(r.usd) ELSE r.amount

\* key(b) - key(a) <= 0: a stays before b
RECURSIVE InsertBy(_, _, _)
InsertBy(sorted, r, field) ==
  IF Len(sorted) = 0 THEN << r >>
  ELSE IF KeyOf(Head(sorted), field) >= KeyOf(r, field)
       THEN << Head(sorted) >> \o InsertBy(Tail(sorted), r, field)
       ELSE << r >> \o sorted

\* Array.prototype.sort with a descending comparator (stable)
RECURSIVE SortFrom(_, _, _)
SortFrom(rows, sorted, field) ==
  IF Len(rows) = 0 THEN sorted
  ELSE SortFrom(Tail(rows), InsertBy(sorted, Head(rows), field), field)

\* the rows left in the order of the accounts
SortMutUnsorted(rows) == rows

\* .sort((a, b) => (b.usd || 0) - (a.usd || 0))
SortByUsd(rows) == SortFrom(rows, << >>, "usd")

\* reduce((s, t) => s + (Number.isFinite(t.usd) ? t.usd : 0), 0)
RECURSIVE SumUsd(_)
SumUsd(rows) ==
  IF Len(rows) = 0 THEN 0 ELSE OrZero(Head(rows).usd) + SumUsd(Tail(rows))

(***************************************************************************)
(* Second variant: GET /wallet (src/index.js 434-541)                      *)
(***************************************************************************)
WalletQueries ==
  [route : { "wallet" }, address : Addresses,
   minUsd : { None, Some(2) },
   maxTokens : { None, Some(0), Some(1) },
   includeToken22 : { None, Some("0"), Some("1") }]

\* one row of tokensAll
Row2(t, jmap, priceMap) ==
  LET priceUsd == IF IsNull(priceMap, t.mint) THEN 0 ELSE priceMap[t.mint]
  IN  [mint |-> t.mint, symbol |-> Symbol(jmap, t.mint), amount |-> t.amount,
       decimals |-> Decimals(t.mint), price |-> Some(priceUsd),
       usd |-> Some(priceUsd * t.amount)]

\* (t.priceUsd > 0 ? t.usd >= minUsd : true)
Visible2(t, minUsd) == IF Val(t.price) > 0 THEN Val(t.usd) >= minUsd ELSE TRUE

\* Math.max(1, Number(req.query.maxTokens ?? 25))
MaxTokens2(q) == Max(1, NumberOr(q.maxTokens, 25))

\* req.query.includeToken22 != null ? String(...) !== "0" : DEFAULT_INCLUDE_TOKEN22
IncludeToken22(q) ==
  IF IsSome(q.includeToken22) THEN Val(q.includeToken22) # "0" ELSE heliusKey

\* the upstreams of one /wallet request; an upstream the request never reaches
\* has one outcome only
WalletEnvs(q) ==
  IF ~ValidKey(Trim(q.address))
  THEN [list : { ListThrown }, balance : { RpcFail }, legacy : { RpcFail },
        t22 : { RpcFail }, prices : { [jup |-> ProviderDown, be |-> ProviderDown] }]
  ELSE [list : IF JupFresh THEN { ListThrown } ELSE ListOutcomes,
        balance : { RpcFail, RpcOk(LAMPORTS_PER_SOL) },
        legacy : { RpcFail } \cup { RpcOk(a) : a \in AcctLists },
        t22 : IF IncludeToken22(q)
              THEN { RpcFail, RpcOk(<< Acct("m1", 2) >>) } ELSE { RpcFail },
        prices : PriceEnvs]

\* no account of the program, whatever the RPC call gave
SafeGetParsedMutDropsValue(rpc) == << >>

\* safeGetParsed: the accounts the RPC call returned, [] when it failed or
\* did not answer within timeoutMs
SafeGetParsed(rpc) == IF rpc.ok THEN rpc.value ELSE << >>

\* a degraded payload whose counts do not match its empty tokens
Degraded2MutStaleCounts(q, msg) ==
  [kind |-> "wallet", owner |-> Trim(q.address), updated |-> now,
   includeToken22 |-> IncludeToken22(q), sol |-> 0, solUsd |-> 0,
   totals |-> [all |-> 0, visible |-> 0],
   counts |-> [tokensAll |-> 0, tokensVisible |-> 1],
   tokens |-> << >>, warning |-> Some(msg)]

\* the payload of the catch block
Degraded2(q, msg) ==
  [kind |-> "wallet", owner |-> Trim(q.address), updated |-> now,
   includeToken22 |-> IncludeToken22(q), sol |-> 0, solUsd |-> 0,
   totals |-> [all |-> 0, visible |-> 0],
   counts |-> [tokensAll |-> 0, tokensVisible |-> 0],
   tokens |-> << >>, warning |-> Some(msg)]

\* the handler run to its response: [res, loc, calls, jup]
WalletRun2(q, env) ==
  LET ownerStr == Trim(q.address)
      minUsd == NumberOr(q.minUsd, 0)
      maxTokens == MaxTokens2(q)
      inc == IncludeToken22(q)
      keep == [map |-> jupMap, loadedAt |-> jupLoadedAt, fetched |-> FALSE]
  IN
  IF ownerStr = ""
  THEN [res |-> [status |-> 400, body |-> [kind |-> "error", error |-> "Missing address"]],
        loc |-> NoLoc, calls |-> {}, jup |-> keep]
  ELSE IF ~ValidKey(ownerStr)
  THEN [res |-> [status |-> 200, body |-> Degraded2(q, "Invalid public key input")],
        loc |-> [kind |-> "caught"], calls |-> {}, jup |-> keep]
  ELSE
  LET jm == GetJupMap(env.list)
      jmap == Val(jm.map)
      sol == IF env.balance.ok THEN env.balance.value \div LAMPORTS_PER_SOL ELSE 0
      legacy == SafeGetParsed(env.legacy)
      t22 == IF inc THEN SafeGetParsed(env.t22) ELSE << >>
      accounts == legacy \o t22
      tokensRaw == TokensRaw(accounts)
      mints == Uniq(MintsOf(tokensRaw))
      gpr == GetPrices(Append(mints, WSOL), env.prices, birdeyeKey)
      priceMap == gpr.out
      solPrice == IF IsNull(priceMap, WSOL) THEN 0 ELSE priceMap[WSOL]
      rows == [k \in DOMAIN tokensRaw |-> Row2(tokensRaw[k], jmap, priceMap)]
      tokensAll == SortByUsd(rows)
      filtered == SelectSeq(tokensAll, LAMBDA t : Visible2(t, minUsd))
      tokensVisible == Slice0(filtered, maxTokens)
      totalUsdAll == solPrice * sol + SumUsd(tokensAll)
      totalUsdVisible == solPrice * sol + SumUsd(tokensVisible)
  IN  [res |-> [status |-> 200,
                body |-> [kind |-> "wallet", owner |-> ownerStr, updated |-> now,
                          includeToken22 |-> inc, sol |-> sol, solUsd |-> sol * solPrice,
                          totals |-> [all |-> totalUsdAll, visible |-> totalUsdVisible],
                          counts |-> [tokensAll |-> Len(tokensAll),
                                      tokensVisible |-> Len(tokensVisible)],
                          tokens |-> tokensVisible, warning |-> None]],
       loc |-> [kind |-> "wallet", minUsd |-> minUsd, maxTokens |-> maxTokens,
                accounts |-> accounts, priceMap |-> priceMap,
                tokensAll |-> tokensAll, filtered |-> filtered,
                nativeUsd |-> sol * solPrice, total |-> totalUsdVisible,
                rpc |-> [balance |-> env.balance, legacy |-> env.legacy,
                         t22 |-> env.t22]],
       calls |-> (IF jm.fetched THEN { "tokenlist" } ELSE {})
                   \cup { "getBalance", "getParsed:legacy" }
                   \cup (IF inc THEN { "getParsed:t22" } ELSE {})
                   \cup gpr.calls,
       jup |-> jm]

Wallet2 ==
  /\ pc = "idle"
  /\ \E q \in WalletQueries :
     \E env \in WalletEnvs(q) :
     \E run \in { WalletRun2(q, env) } :
           /\ req' = q
           /\ res' = run.res
           /\ loc' = run.loc
           /\ calls' = run.calls
           /\ jupMap' = run.jup.map
           /\ jupLoadedAt' = run.jup.loadedAt
  /\ pc' = "done"
  /\ UNCHANGED << heliusKey, birdeyeKey, now, cache, gp, gh, rf >>

\* GET /buys (src/index.js 544-603)
BuysQueries ==
  [route : { "buys" }, address : { "", "A" }, type : { None, Some("wallet") },
   limit : { None, Some(0), Some(1), Some(51) }, minUsd : { None, Some(2) }]

\* a transaction of the provider: its signature, the side it may state, its
\* mint ("" when it names none), its amount and the priceUsd and valueUsd it
\* may carry
Tx(sig, side, mint, amount, priceUsd, valueUsd) ==
  [sig |-> sig, side |-> side, is_buy |-> None, mint |-> mint, amount |-> amount,
   priceUsd |-> priceUsd, valueUsd |-> valueUsd]

TxLists ==
  { << >>,
    << Tx("t1", Some("buy"), "m1", Some(1), None, None) >>,
    << Tx("t1", Some("buy"), "m1", Some(1), Some(3), None),
       Tx("t2", None, "", Some(1), None, Some(1)) >>,
    << Tx("t1", Some("sell"), "m2", Some(2), None, None),
       Tx("t2", Some("buy"), "m1", Some(1), None, Some(5)) >>,
    << Tx("t1", Some("buy"), "m1", None, None, None),
       Tx("t2", Some("buy"), "m1", Some(2), None, Some(0)) >> }

\* fetchJson of the transactions: thrown, a body whose rows are no array, rows
TxThrown == [ok |-> FALSE, isArray |-> FALSE, rows |-> << >>]
TxNotArray == [ok |-> TRUE, isArray |-> FALSE, rows |-> << >>]
TxOutcomes == { TxThrown, TxNotArray } \cup { [ok |-> TRUE, isArray |-> TRUE, rows |-> r] : r \in TxLists }

\* Math.max(1, Math.min(50, Number(req.query.limit ?? 10)))
Limit2(q) == Max(1, Min(50, NumberOr(q.limit, 10)))

\* the mints of toPrice, in the order the rows add them
ToPrice(rows) == Uniq(SelectSeq([k \in DOMAIN rows |-> rows[k].mint], LAMBDA m : m # ""))

\* one mapped row: px, usdRaw and the fields built from them
Buy2(tx, jmap, pmap) ==
  LET amount == OrZero(tx.amount)
      px == IF OrZero(tx.priceUsd) # 0 THEN Val(tx.priceUsd)
            ELSE IF IsNull(pmap, tx.mint) THEN 0 ELSE pmap[tx.mint]
      usdRaw == IF OrZero(tx.valueUsd) # 0 THEN tx.valueUsd
                ELSE IF px > 0 THEN Some(amount * px) ELSE None
  IN  [sig |-> tx.sig, mint |-> tx.mint, symbol |-> Symbol(jmap, tx.mint),
       amount |-> amount,
       priceUsd |-> IF px > 0 THEN Some(px) ELSE None, usd |-> usdRaw]

\* .filter((b) => (b.usd == null ? true : b.usd >= minUsd))
KeepBuy2(b, minUsd) == IF ~IsSome(b.usd) THEN TRUE ELSE Val(b.usd) >= minUsd

BuysEnvs(q) ==
  IF Trim(q.address) = "" \/ ~birdeyeKey
  THEN [txns : { TxThrown }, list : { ListThrown },
        prices : { [jup |-> ProviderDown, be |-> ProviderDown] }]
  ELSE [txns : TxOutcomes, list : IF JupFresh THEN { ListThrown } ELSE ListOutcomes,
        prices : PriceEnvs]

\* the handler run to its response: [res, loc, calls, jup]
BuysRun2(q, env) ==
  LET address == Trim(q.address)
      limit == Limit2(q)
      minUsd == NumberOr(q.minUsd, 0)
      keep == [map |-> jupMap, loadedAt |-> jupLoadedAt, fetched |-> FALSE]
      empty(msg) == [status |-> 200,
                     body |-> [kind |-> "buys", buys |-> << >>, warning |-> Some(msg)]]
  IN
  IF address = ""
  THEN [res |-> [status |-> 400, body |-> [kind |-> "error", error |-> "Missing address"]],
        loc |-> NoLoc, calls |-> {}, jup |-> keep]
  ELSE IF ~birdeyeKey
  THEN [res |-> empty("No BIRDEYE_API_KEY set"), loc |-> NoLoc, calls |-> {}, jup |-> keep]
  ELSE IF ~env.txns.ok \/ ~env.txns.isArray
  THEN [res |-> empty(IF env.txns.ok THEN "rows.forEach is not a function" ELSE "fetch failed"),
        loc |-> [kind |-> "caught", trades |-> IF env.txns.ok THEN "notarray" ELSE "failed"],
        calls |-> { "txns" }, jup |-> keep]
  ELSE
  LET rows == env.txns.rows
      gpr == GetPrices(ToPrice(rows), env.prices, birdeyeKey)
      jm == GetJupMap(env.list)
      mapped == [k \in DOMAIN rows |-> Buy2(rows[k], Val(jm.map), gpr.out)]
      kept == SelectSeq(mapped, LAMBDA b : KeepBuy2(b, minUsd))
      buys == Slice0(kept, limit)
  IN  [res |-> [status |-> 200, body |-> [kind |-> "buys", buys |-> buys, warning |-> None]],
       loc |-> [kind |-> "buys", minUsd |-> minUsd, limit |-> limit, rows |-> rows,
                priceMap |-> gpr.out, mapped |-> mapped, kept |-> kept],
       calls |-> { "txns" } \cup gpr.calls
                   \cup (IF jm.fetched THEN { "tokenlist" } ELSE {}),
       jup |-> jm]

Buys2 ==
  /\ pc = "idle"
  /\ \E q \in BuysQueries :
     \E env \in BuysEnvs(q) :
     \E run \in { BuysRun2(q, env) } :
           /\ req' = q
           /\ res' = run.res
           /\ loc' = run.loc
           /\ calls' = run.calls
           /\ jupMap' = run.jup.map
           /\ jupLoadedAt' = run.jup.loadedAt
  /\ pc' = "done"
  /\ UNCHANGED << heliusKey, birdeyeKey, now, cache, gp, gh, rf >>

\* the response is out; the server waits for the next request
NextRequest ==
  /\ pc = "done"
  /\ pc' = "idle"
  /\ req' = NoReq
  /\ res' = NoRes
  /\ loc' = NoLoc
  /\ calls' = {}
  /\ UNCHANGED << heliusKey, birdeyeKey, now, jupMap, jupLoadedAt, cache, gp, gh, rf >>

(***************************************************************************)
(* First variant (src/index.js 1-226): cache, loadJup, GET /wallet         *)
(***************************************************************************)
\* bounds of the first variant's specification
MaxCache == 1
MaxTicks == 2
\* the clock moves in steps of TickMs1 ms
TickMs1 == 5000

CACHE_TTL_MS == 10000

\* getCache(key, ttlMs): the stored data, None for null
GetCache1(key, ttlMs) ==
  IF key \in DOMAIN cache /\ now - cache[key].ts < ttlMs
  THEN Some(cache[key].data) ELSE None

\* setCache(key, data)
SetCache1(key, data) ==
  [k \in DOMAIN cache \cup { key } |->
     IF k = key THEN [ts |-> now, data |-> data] ELSE cache[k]]

WalletQueries1 ==
  [route : { "wallet" }, address : Addresses,
   minUsd : { None, Some(2) },
   maxTokens : { None, Some(0), Some(1), Some(-1) }]

\* the upstreams of one /wallet request of the first variant
WalletEnvs1(q) ==
  IF ~ValidKey(Trim(q.address))
  THEN [balance : { RpcFail }, legacy : { RpcFail }, be : { ProviderDown }]
  ELSE [balance : { RpcFail, RpcOk(LAMPORTS_PER_SOL) },
        legacy : { RpcFail } \cup { RpcOk(a) : a \in AcctLists },
        be : { ProviderDown } \cup { Provider(t) : t \in JupTables }]

\* value.map(...).filter(t => t.amount > 0)
TokensRaw1(accounts) == SelectSeq(accounts, LAMBDA t : t.amount > 0)

\* the Birdeye /defi/price call inside its own try/catch: a failure leaves {}
Prices1(mints, be) == JupApply(<< >>, Answer(be, mints))

\* one composed row: price = prices[t.mint] ?? 0
Row1(t, jmap, prices) ==
  LET price == IF IsNull(prices, t.mint) THEN 0 ELSE prices[t.mint]
  IN  [mint |-> t.mint, symbol |-> Symbol(jmap, t.mint), amount |-> t.amount,
       decimals |-> Decimals(t.mint), price |-> Some(price),
       usd |-> Some(price * t.amount)]

\* tokens.filter(t => (t.usd || 0) >= minUsd)
Visible1(t, minUsd) == OrZero(t.usd) >= minUsd

\* Number(req.query.maxTokens ?? 25)
MaxTokens1(q) == NumberOr(q.maxTokens, 25)

CacheKey1(q) == << "wallet", Trim(q.address), NumberOr(q.minUsd, 0), MaxTokens1(q) >>

Error500(msg) == [status |-> 500, body |-> [kind |-> "error", error |-> msg]]

\* the handler run to its response: [res, loc, calls, cache]
WalletRun1(q, env) ==
  LET ownerStr == Trim(q.address)
      minUsd == NumberOr(q.minUsd, 0)
      maxTokens == MaxTokens1(q)
      key == CacheKey1(q)
      cached == GetCache1(key, CACHE_TTL_MS)
  IN
  IF ownerStr = ""
  THEN [res |-> [status |-> 400, body |-> [kind |-> "error", error |-> "Missing address"]],
        loc |-> NoLoc, calls |-> {}, cache |-> cache]
  ELSE IF ~ValidKey(ownerStr)
  THEN [res |-> Error500("Invalid public key input"),
        loc |-> [kind |-> "caught"], calls |-> {}, cache |-> cache]
  ELSE IF IsSome(cached)
  THEN [res |-> [status |-> 200, body |-> Val(cached)],
        loc |-> [kind |-> "cached"], calls |-> {}, cache |-> cache]
  ELSE IF ~env.balance.ok
  THEN [res |-> Error500("getBalance failed"),
        loc |-> [kind |-> "caught"], calls |-> { "getBalance" }, cache |-> cache]
  ELSE IF ~env.legacy.ok
  THEN [res |-> Error500("getParsedTokenAccountsByOwner failed"),
        loc |-> [kind |-> "caught"],
        calls |-> { "getBalance", "getParsed:legacy" }, cache |-> cache]
  ELSE
  LET sol == env.balance.value \div LAMPORTS_PER_SOL
      accounts == env.legacy.value
      tokensRaw == TokensRaw1(accounts)
      mints == Uniq(MintsOf(tokensRaw))
      prices == Prices1(mints, env.be)
      rows == [k \in DOMAIN tokensRaw |-> Row1(tokensRaw[k], Val(jupMap), prices)]
      tokensAll == SortByUsd(rows)
      filtered == SelectSeq(tokensAll, LAMBDA t : Visible1(t, minUsd))
      visible == Slice0(filtered, maxTokens)
      solPrice == IF IsNull(prices, WSOL) THEN 0 ELSE prices[WSOL]
      totalUsd == sol * solPrice + SumUsd(visible)
      snapshot == [kind |-> "wallet", owner |-> ownerStr, updated |-> now,
                   sol |-> sol, solUsd |-> sol * solPrice, totalUsd |-> totalUsd,
                   tokens |-> visible]
  IN  [res |-> [status |-> 200, body |-> snapshot],
       loc |-> [kind |-> "wallet", minUsd |-> minUsd, maxTokens |-> maxTokens,
                accounts |-> accounts, priceMap |-> prices,
                tokensAll |-> tokensAll, filtered |-> filtered,
                nativeUsd |-> sol * solPrice, total |-> totalUsd],
       calls |-> { "getBalance", "getParsed:legacy", "birdeye" },
       cache |-> SetCache1(key, snapshot)]

Wallet1 ==
  /\ pc = "idle"
  /\ \E q \in WalletQueries1 :
     \E env \in WalletEnvs1(q) :
     \E run \in { WalletRun1(q, env) } :
           /\ Cardinality(DOMAIN run.cache) <= MaxCache
           /\ req' = q
           /\ res' = run.res
           /\ loc' = run.loc
           /\ calls' = run.calls
           /\ cache' = run.cache
  /\ pc' = "done"
  /\ UNCHANGED << heliusKey, birdeyeKey, now, jupMap, jupLoadedAt, gp, gh, rf >>

\* GET /buys of the first variant (src/index.js 150-219)
BuysQueries1 ==
  [route : { "buys" }, address : { "", "A" }, type : { None },
   limit : { None, Some(0), Some(1), Some(60) }, minUsd : { None, Some(2) }]

\* String.prototype.toLowerCase on the strings of the model
Lower(str) == IF str = "BUY" THEN "buy" ELSE str

\* a raw trade of the provider: txHash, side, is_buy and volume_usd, each of
\* the last three possibly absent
Trade1(tx, side, is_buy, usd) ==
  [sig |-> tx, side |-> side, is_buy |-> is_buy, usd |-> usd]

TradeLists1 ==
  { << >>,
    << Trade1("t1", Some("buy"), None, Some(5)), Trade1("t2", None, None, Some(5)) >>,
    << Trade1("t1", Some("sell"), Some(TRUE), None), Trade1("t2", Some("BUY"), None, Some(1)) >>,
    << Trade1("t1", None, Some(TRUE), Some(3)), Trade1("t2", Some("sell"), Some(FALSE), Some(3)) >> }

\* fetchTrades(endpoint): thrown (network, !r.ok, no JSON), or j.data, which
\* may be something else than an array
TradesThrown == [ok |-> FALSE, isArray |-> FALSE, rows |-> << >>]
TradesNotArray == [ok |-> TRUE, isArray |-> FALSE, rows |-> << >>]
TradesOutcomes1 ==
  { TradesThrown, TradesNotArray }
    \cup { [ok |-> TRUE, isArray |-> TRUE, rows |-> r] : r \in TradeLists1 }

\* Math.min(Number(req.query.limit ?? 10), 100)
Limit1(q) == Min(NumberOr(q.limit, 10), 100)

BuysKey1(q) == << "buys", "token", Trim(q.address), Limit1(q), NumberOr(q.minUsd, 0) >>

\* one normalized item: side, isBuy and usd as the map computes them
Item1(x) ==
  LET side == Lower(IF IsSome(x.side) /\ Val(x.side) # "" THEN Val(x.side)
                    ELSE IF IsSome(x.is_buy) /\ Val(x.is_buy) THEN "buy" ELSE "sell")
  IN  [sig |-> x.sig,
       isBuy |-> (side = "buy" \/ (IsSome(x.is_buy) /\ Val(x.is_buy) = TRUE)),
       usd |-> Some(OrZero(x.usd))]

\* the upstreams of one /buys request of the first variant: the answers of
\* /defi/trades and of /defi/txs
BuysEnvs1(q) ==
  IF Trim(q.address) = ""
  THEN [trades : { TradesThrown }, txs : { TradesThrown }]
  ELSE [trades : TradesOutcomes1, txs : { TradesThrown, TradesNotArray } \cup
                   { [ok |-> TRUE, isArray |-> TRUE, rows |-> r] :
                       r \in { << Trade1("t3", Some("buy"), None, Some(4)) >> } }]

\* the handler run to its response: [res, loc, calls, cache]
BuysRun1(q, env) ==
  LET address == Trim(q.address)
      limit == Limit1(q)
      minUsd == NumberOr(q.minUsd, 0)
      key == BuysKey1(q)
      cached == GetCache1(key, CACHE_TTL_MS)
      \* rows after the try / catch / fallback
      got == IF env.trades.ok THEN env.trades
             ELSE IF env.txs.ok /\ env.txs.isArray THEN env.txs
                  ELSE [ok |-> TRUE, isArray |-> TRUE, rows |-> << >>]
      upstream == IF env.trades.ok THEN { "trades" } ELSE { "trades", "txs" }
  IN
  IF address = ""
  THEN [res |-> [status |-> 400, body |-> [kind |-> "error", error |-> "Missing address"]],
        loc |-> NoLoc, calls |-> {}, cache |-> cache]
  ELSE IF IsSome(cached)
  THEN [res |-> [status |-> 200, body |-> Val(cached)],
        loc |-> [kind |-> "cached"], calls |-> {}, cache |-> cache]
  ELSE IF ~got.isArray
  THEN [res |-> Error500("rows.map is not a function"),
        loc |-> [kind |-> "caught", trades |-> "notarray"],
        calls |-> upstream, cache |-> cache]
  ELSE
  LET rows == got.rows
      mapped == [k \in DOMAIN rows |-> Item1(rows[k])]
      kept == SelectSeq(mapped, LAMBDA i : i.isBuy /\ Val(i.usd) >= minUsd)
      items == Slice0(kept, limit)
      payload == [kind |-> "buys", type |-> "token", address |-> address, items |-> items]
  IN  [res |-> [status |-> 200, body |-> payload],
       loc |-> [kind |-> "buys", minUsd |-> minUsd, limit |-> limit, rows |-> rows,
                mapped |-> mapped, kept |-> kept,
                trades |-> IF env.trades.ok THEN "ok"
                           ELSE IF env.txs.ok THEN "fallback" ELSE "failed"],
       calls |-> upstream, cache |-> SetCache1(key, payload)]

Buys1 ==
  /\ pc = "idle"
  /\ \E q \in BuysQueries1 :
     \E env \in BuysEnvs1(q) :
     \E run \in { BuysRun1(q, env) } :
           /\ Cardinality(DOMAIN run.cache) <= MaxCache
           /\ req' = q
           /\ res' = run.res
           /\ loc' = run.loc
           /\ calls' = run.calls
           /\ cache' = run.cache
  /\ pc' = "done"
  /\ UNCHANGED << heliusKey, birdeyeKey, now, jupMap, jupLoadedAt, gp, gh, rf >>

\* loadJup on its daily timer: a failed fetch, or a body that is no array,
\* throws inside the try and leaves jupMap as it was
LoadJup1 ==
  /\ pc = "idle"
  /\ \E fetch \in ListOutcomes :
       jupMap' = IF fetch.ok /\ fetch.isArray THEN Some(fetch.list) ELSE jupMap
  /\ UNCHANGED << heliusKey, birdeyeKey, now, jupLoadedAt, cache, pc, req, res, loc,
                  calls, gp, gh, rf >>

\* time passes between two requests
Tick1 ==
  /\ pc = "idle"
  /\ now + TickMs1 <= Epoch + MaxTicks * TickMs1
  /\ now' = now + TickMs1
  /\ UNCHANGED << heliusKey, birdeyeKey, jupMap, jupLoadedAt, cache, pc, req, res, loc,
                  calls, gp, gh, rf >>

(***************************************************************************)
(* The HTTP helpers fetchJson and httpText (src/index.js 260-309) and a    *)
(* call of getJupMap through fetchJson                                     *)
(***************************************************************************)
\* the clock of the metadata directory moves in at most MaxTicksJ steps
MaxTicksJ == 3
TickMsJ == 900000

\* { retries = 1 } of both helpers
RETRIES == 1

\* what the server answers to one attempt: status 0 stands for a network
\* error or the abort of the timeout; json is the parsed body, None when the
\* body is no JSON
Resp(status, json) == [status |-> status, json |-> json]
JsonNotArray == [isArray |-> FALSE, list |-> EmptyMap]
JsonArray == [isArray |-> TRUE, list |-> TokenList]
Resps ==
  { Resp(0, None), Resp(429, None), Resp(500, None) }
    \cup { Resp(404, j) : j \in { None, Some(JsonNotArray) } }
    \cup { Resp(200, j) : j \in { None, Some(JsonNotArray), Some(JsonArray) } }

\* r.status === 429 || r.status >= 500, or fetch itself threw
Retryable(r) == r.status = 0 \/ r.status = 429 \/ r.status >= 500

\* fetchJson from attempt number `attempt` on: [thrown, body, tries]; the
\* body {} that r.json().catch(() => ({})) gives is a body that is no array
RECURSIVE FetchJsonFrom(_, _, _)
FetchJsonFrom(resps, attempt, retries) ==
  LET r == resps[attempt + 1]
  IN  IF Retryable(r)
      THEN IF attempt + 1 > retries
           THEN [thrown |-> TRUE, body |-> JsonNotArray, tries |-> attempt + 1]
           ELSE FetchJsonFrom(resps, attempt + 1, retries)
      ELSE [thrown |-> FALSE,
            body |-> IF IsSome(r.json) THEN Val(r.json) ELSE JsonNotArray,
            tries |-> attempt + 1]

FetchJson(resps, retries) == FetchJsonFrom(resps, 0, retries)

\* httpText from attempt number `attempt` on: [thrown, tries]
RECURSIVE HttpTextFrom(_, _, _)
HttpTextFrom(resps, attempt, retries) ==
  LET r == resps[attempt + 1]
  IN  IF Retryable(r)
      THEN IF attempt + 1 > retries
           THEN [thrown |-> TRUE, tries |-> attempt + 1]
           ELSE HttpTextFrom(resps, attempt + 1, retries)
      ELSE [thrown |-> FALSE, tries |-> attempt + 1]

HttpText(resps, retries) == HttpTextFrom(resps, 0, retries)

\* the outcome of the token list fetch as getJupMap sees it
ListOf(f) ==
  IF f.thrown THEN ListThrown
  ELSE [ok |-> TRUE, isArray |-> f.body.isArray, list |-> f.body.list]

\* the answers the server would give to the attempts of one call
RespSeqs == [1..(RETRIES + 1) -> Resps]

\* one call of getJupMap, as /wallet and /buys make it
JupCall ==
  /\ pc = "idle"
  /\ \E resps \in RespSeqs :
       LET f == FetchJson(resps, RETRIES)
           jm == GetJupMap(ListOf(f))
       IN  /\ jupMap' = jm.map
           /\ jupLoadedAt' = jm.loadedAt
           /\ loc' = [kind |-> "jup", before |-> jupMap, fetched |-> jm.fetched,
                      resps |-> resps, thrown |-> f.thrown, tries |-> f.tries]
           /\ calls' = IF jm.fetched THEN { "tokenlist" } ELSE {}
  /\ req' = [route |-> "getJupMap"]
  /\ res' = NoRes
  /\ pc' = "done"
  /\ UNCHANGED << heliusKey, birdeyeKey, now, cache, gp, gh, rf >>

\* one call of httpText
HttpTextCall ==
  /\ pc = "idle"
  /\ \E resps \in RespSeqs :
       LET f == HttpText(resps, RETRIES)
       IN  loc' = [kind |-> "http", resps |-> resps, thrown |-> f.thrown,
                   tries |-> f.tries]
  /\ req' = [route |-> "httpText"]
  /\ res' = NoRes
  /\ calls' = { "http" }
  /\ pc' = "done"
  /\ UNCHANGED << heliusKey, birdeyeKey, now, jupMap, jupLoadedAt, cache, gp, gh, rf >>

TickJup ==
  /\ pc = "idle"
  /\ now + TickMsJ <= Epoch + MaxTicksJ * TickMsJ
  /\ now' = now + TickMsJ
  /\ UNCHANGED << heliusKey, birdeyeKey, jupMap, jupLoadedAt, cache, pc, req, res, loc,
                  calls, gp, gh, rf >>

(***************************************************************************)
(* part_000 (src/unnamed/part_000 71-383): cache, birdeye, getPriceUSD,    *)
(* GET /wallet, GET /buys                                                  *)
(***************************************************************************)
\* the clock of this variant moves in at most MaxTicks4 steps of TickMs4 ms
MaxTicks4 == 1
TickMs4 == 40000

BE_TTL_MS == 30000
PRICE_TTL_MS == 45000
SOL_MINT == WSOL

\* getCache(key) on cache c: [value, cache]; an expired entry is deleted
GetCache4(c, key) ==
  IF key \notin DOMAIN c THEN [hit |-> FALSE, value |-> None, cache |-> c]
  ELSE IF now > c[key].exp
       THEN [hit |-> FALSE, value |-> None,
             cache |-> [k \in DOMAIN c \ { key } |-> c[k]]]
       ELSE [hit |-> TRUE, value |-> c[key].value, cache |-> c]

\* setCache(key, value, ttlMs)
SetCache4(c, key, value, ttlMs) ==
  [k \in DOMAIN c \cup { key } |->
     IF k = key THEN [value |-> value, exp |-> now + ttlMs] ELSE c[k]]

\* what the provider answers to the first, second and third attempt of a call
Attempts4 ==
  { << 200, 200, 200 >>, << 429, 429, 200 >>, << 429, 429, 429 >>, << 500, 200, 200 >> }

\* the retry loop of birdeye(): "ok", "ratelimited" (three 429) or "failed"
RECURSIVE FetchLoop4(_, _)
FetchLoop4(attempts, i) ==
  IF i > 3 THEN "ratelimited"
  ELSE IF attempts[i] = 429 THEN FetchLoop4(attempts, i + 1)
       ELSE IF attempts[i] = 200 THEN "ok" ELSE "failed"

\* the number of fetches the retry loop of birdeye() makes from pass i on
RECURSIVE Tries4(_, _)
Tries4(attempts, i) ==
  IF i > 3 THEN 0
  ELSE IF attempts[i] = 429 THEN 1 + Tries4(attempts, i + 1) ELSE 1

\* birdeye(path, params) for the body json: [outcome, json, cache, called, tries]
Birdeye4(c, key, attempts, json) ==
  LET g == GetCache4(c, key)
  IN  IF g.hit
      THEN [outcome |-> "ok", json |-> g.value, cache |-> g.cache, called |-> FALSE,
            tries |-> 0]
      ELSE LET o == FetchLoop4(attempts, 1)
               n == Tries4(attempts, 1)
           IN  IF o = "ok"
               THEN [outcome |-> "ok", json |-> json,
                     cache |-> SetCache4(g.cache, key, json, BE_TTL_MS), called |-> TRUE,
                     tries |-> n]
               ELSE [outcome |-> o, json |-> json, cache |-> g.cache, called |-> TRUE,
                     tries |-> n]

\* getPriceUSD(mint): [outcome, price, cache, called]; a cached null is a miss
GetPriceUSD(c, mint, penv) ==
  LET g == GetCache4(c, << "price", mint >>)
  IN  IF g.hit /\ IsSome(g.value)
      THEN [outcome |-> "ok", price |-> g.value, cache |-> g.cache, called |-> FALSE]
      ELSE LET b == Birdeye4(g.cache, << "be", "/defi/price", mint >>,
                             penv.attempts, penv.tab[mint])
           IN  IF b.outcome = "ok"
               THEN [outcome |-> "ok", price |-> b.json,
                     cache |-> SetCache4(b.cache, << "price", mint >>, b.json, PRICE_TTL_MS),
                     called |-> b.called]
               ELSE [outcome |-> b.outcome, price |-> None, cache |-> b.cache,
                     called |-> b.called]

\* aggregate by mint, in the Map's insertion order: amount += ui
RECURSIVE Aggregate(_, _)
Aggregate(rows, acc) ==
  IF Len(rows) = 0 THEN acc
  ELSE LET r == Head(rows)
           at == { k \in DOMAIN acc : acc[k].mint = r.mint }
       IN  Aggregate(Tail(rows),
             IF r.mint = "" THEN acc
             ELSE IF at = {}
                  THEN Append(acc, [mint |-> r.mint, amount |-> r.amount])
                  ELSE [k \in DOMAIN acc |->
                          IF k \in at THEN [acc[k] EXCEPT !.amount = @ + r.amount]
                          ELSE acc[k]])

\* mapByMint.set(SOL_MINT, ...) when solAmount > 0
WithSol(items, solAmount) ==
  IF solAmount <= 0 THEN items
  ELSE IF \E k \in DOMAIN items : items[k].mint = SOL_MINT
       THEN [k \in DOMAIN items |->
               IF items[k].mint = SOL_MINT
               THEN [mint |-> SOL_MINT, amount |-> solAmount] ELSE items[k]]
       ELSE Append(items, [mint |-> SOL_MINT, amount |-> solAmount])

\* the pricing loop over items: [outcome, rows, totalUsd, cache, called]
RECURSIVE PriceItems(_, _, _)
PriceItems(items, penv, acc) ==
  IF Len(items) = 0 \/ acc.outcome # "ok" THEN acc
  ELSE LET it == Head(items)
           p == GetPriceUSD(acc.cache, it.mint, penv)
           usd == IF p.outcome = "ok" /\ OrZero(p.price) # 0
                  THEN Some(Val(p.price) * it.amount) ELSE None
       IN  PriceItems(Tail(items), penv,
             [outcome |-> p.outcome,
              rows |-> Append(acc.rows,
                         [mint |-> it.mint, symbol |-> "", amount |-> it.amount,
                          decimals |-> Decimals(it.mint), price |-> p.price, usd |-> usd]),
              totalUsd |-> acc.totalUsd + OrZero(usd),
              cache |-> p.cache,
              called |-> acc.called \/ p.called])

\* the prices the loop obtained, by mint
PricesOf(rows) ==
  [m \in { rows[k].mint : k \in { j \in DOMAIN rows : IsSome(rows[j].price) } } |->
     Val(rows[CHOOSE k \in DOMAIN rows : rows[k].mint = m].price)]

\* Math.min(Number(req.query.maxTokens ?? 50), 200)
MaxTokens4(q) == Min(NumberOr(q.maxTokens, 50), 200)

WalletQueries4 ==
  [route : { "wallet" }, address : Addresses,
   minUsd : { None, Some(2) }, maxTokens : { None, Some(1) }]

PriceTables4 ==
  { [m \in WMints \cup { SOL_MINT } |->
       IF m = "m1" THEN a ELSE IF m = "m2" THEN Some(1) ELSE Some(2)] :
    a \in { None, Some(1) } }

\* the classic token accounts of the owner, as the RPC lists them
AcctLists4 ==
  { << >>, << Acct("m1", 1) >>, << Acct("m1", 1), Acct("m2", 2) >>,
    << Acct("m2", 2), Acct("m1", 1) >> }

\* the upstreams of one /wallet request of part_000; the RPC answers an owner
\* that is no public key with an error
WalletEnvs4(q) ==
  IF ~ValidKey(Trim(q.address))
  THEN [classic : { RpcFail }, t22 : { RpcFail }, balance : { RpcFail },
        prices : [attempts : { << 200, 200, 200 >> }, tab : PriceTables4]]
  ELSE [classic : { RpcFail } \cup { RpcOk(a) : a \in AcctLists4 },
        t22 : { RpcOk(<< >>), RpcOk(<< Acct("m1", 2) >>) },
        balance : { RpcFail, RpcOk(LAMPORTS_PER_SOL) },
        prices : [attempts : Attempts4, tab : PriceTables4]]

\* the handler run to its response: [res, loc, calls, cache]
WalletRun4(q, env) ==
  LET owner == Trim(q.address)
      minUsd == NumberOr(q.minUsd, 0)
      maxTokens == MaxTokens4(q)
  IN
  IF owner = ""
  THEN [res |-> [status |-> 400, body |-> [kind |-> "error", error |-> "address required"]],
        loc |-> NoLoc, calls |-> {}, cache |-> cache]
  ELSE IF ~env.classic.ok \/ ~env.t22.ok
  THEN [res |-> Error500("RPC getTokenAccountsByOwner failed"),
        loc |-> [kind |-> "caught"],
        calls |-> { "getParsed:legacy", "getParsed:t22" }, cache |-> cache]
  ELSE
  LET accounts == env.classic.value \o env.t22.value
      solAmount == IF env.balance.ok THEN env.balance.value \div LAMPORTS_PER_SOL ELSE 0
      byMint == WithSol(Aggregate(accounts, << >>), solAmount)
      items == Slice0(SortFrom(byMint, << >>, "amount"), maxTokens)
      priced == PriceItems(items, env.prices,
                           [outcome |-> "ok", rows |-> << >>, totalUsd |-> 0,
                            cache |-> cache, called |-> FALSE])
      filtered == IF minUsd > 0
                  THEN SelectSeq(priced.rows, LAMBDA t : OrZero(t.usd) >= minUsd)
                  ELSE priced.rows
      tokens == SortByUsd(filtered)
      upstream == { "getParsed:legacy", "getParsed:t22", "getBalance" }
                    \cup (IF priced.called THEN { "birdeye" } ELSE {})
  IN  IF priced.outcome # "ok"
      THEN [res |-> Error500(priced.outcome), loc |-> [kind |-> "caught"],
            calls |-> upstream, cache |-> priced.cache]
      ELSE [res |-> [status |-> 200,
                     body |-> [kind |-> "wallet", address |-> owner,
                               count |-> Len(filtered), totalUsd |-> priced.totalUsd,
                               tokens |-> tokens, updatedAt |-> now]],
            loc |-> [kind |-> "wallet", minUsd |-> minUsd, maxTokens |-> maxTokens,
                     accounts |-> accounts,
                     priceMap |-> PricesOf(priced.rows),
                     tokensAll |-> priced.rows, filtered |-> filtered,
                     nativeUsd |-> 0, total |-> priced.totalUsd],
            calls |-> upstream, cache |-> priced.cache]

Wallet4 ==
  /\ pc = "idle"
  /\ \E q \in WalletQueries4 :
     \E env \in WalletEnvs4(q) :
     \E run \in { WalletRun4(q, env) } :
           /\ req' = q
           /\ res' = run.res
           /\ loc' = run.loc
           /\ calls' = run.calls
           /\ cache' = run.cache
  /\ pc' = "done"
  /\ UNCHANGED << heliusKey, birdeyeKey, now, jupMap, jupLoadedAt, gp, gh, rf >>

\* GET /buys of part_000
BuysQueries4 ==
  [route : { "buys" }, address : { "", "A" },
   type : { None, Some("markets") }, limit : { None }]

Trade(side, tx) == [side |-> side, tx |-> tx]
\* the bodies of /defi/trades: data.items, absent or a list of trades
TradeBodies4 == { None, Some(<< Trade("buy", "t1"), Trade("sell", "t2") >>) }

BuysRun4(q, attempts, json) ==
  LET type == IF IsSome(q.type) THEN Val(q.type) ELSE "token"
      address == q.address
      limit == Min(NumberOr(q.limit, 10), 100)
  IN
  IF address = ""
  THEN [res |-> [status |-> 400, body |-> [kind |-> "error", error |-> "address required"]],
        loc |-> NoLoc, calls |-> {}, cache |-> cache]
  ELSE IF type \notin { "token", "pair" }
  THEN [res |-> [status |-> 400, body |-> [kind |-> "error", error |-> "invalid type"]],
        loc |-> NoLoc, calls |-> {}, cache |-> cache]
  ELSE
  LET b == Birdeye4(cache, << "be", "/defi/trades", address, type, limit >>, attempts, json)
      items == IF IsSome(b.json) THEN Val(b.json) ELSE << >>
      rows == SelectSeq(items, LAMBDA t : t.side = "buy")
      upstream == IF b.called THEN { "trades" } ELSE {}
  IN  IF b.outcome # "ok"
      THEN [res |-> [status |-> IF b.outcome = "ratelimited" THEN 429 ELSE 500,
                     body |-> [kind |-> "error", error |-> b.outcome]],
            loc |-> [kind |-> "caught", attempts |-> attempts, tries |-> b.tries,
                     thrown |-> TRUE],
            calls |-> upstream, cache |-> b.cache]
      ELSE [res |-> [status |-> 200,
                     body |-> [kind |-> "buys", type |-> type, address |-> address,
                               count |-> Len(rows),
                               items |-> [k \in DOMAIN rows |-> [tx |-> rows[k].tx]]]],
            loc |-> [kind |-> "buys", limit |-> limit, attempts |-> attempts,
                     tries |-> b.tries, thrown |-> FALSE],
            calls |-> upstream, cache |-> b.cache]

Buys4 ==
  /\ pc = "idle"
  /\ \E q \in BuysQueries4, attempts \in Attempts4, json \in TradeBodies4 :
     \E run \in { BuysRun4(q, attempts, json) } :
           /\ req' = q
           /\ res' = run.res
           /\ loc' = run.loc
           /\ calls' = run.calls
           /\ cache' = run.cache
  /\ pc' = "done"
  /\ UNCHANGED << heliusKey, birdeyeKey, now, jupMap, jupLoadedAt, gp, gh, rf >>

Tick4 ==
  /\ pc = "idle"
  /\ \E d \in { BE_TTL_MS, TickMs4 } :
       /\ now + d <= Epoch + MaxTicks4 * TickMs4
       /\ now' = now + d
  /\ UNCHANGED << heliusKey, birdeyeKey, jupMap, jupLoadedAt, cache, pc, req, res, loc,
                  calls, gp, gh, rf >>

Init ==
  /\ heliusKey \in BOOLEAN
  /\ birdeyeKey \in BOOLEAN
  /\ now = Epoch
  /\ jupMap = None
  /\ jupLoadedAt = 0
  /\ cache = << >>
  /\ pc = "idle"
  /\ req = NoReq
  /\ res = NoRes
  /\ loc = NoLoc
  /\ calls = {}
  /\ gp = GpIdle
  /\ gh = GhInit
  /\ rf = RfInit

Next == Wallet2 \/ Buys2 \/ NextRequest
Spec == Init /\ [][Next]_vars

\* the first variant starts with await loadJup(): the list or, on failure, the
\* empty map jupMap was declared with
InitV1 ==
  /\ heliusKey = FALSE
  /\ birdeyeKey = TRUE
  /\ now = Epoch
  /\ jupMap \in { Some(EmptyMap), Some(TokenList) }
  /\ jupLoadedAt = 0
  /\ cache = << >>
  /\ pc = "idle"
  /\ req = NoReq
  /\ res = NoRes
  /\ loc = NoLoc
  /\ calls = {}
  /\ gp = GpIdle
  /\ gh = GhInit
  /\ rf = RfInit

NextV1 == Wallet1 \/ Buys1 \/ LoadJup1 \/ Tick1 \/ NextRequest
SpecV1 == InitV1 /\ [][NextV1]_vars

\* part_000 has no metadata map; it is run with BIRDEYE_API_KEY set
InitV4 ==
  /\ heliusKey = FALSE
  /\ birdeyeKey = TRUE
  /\ now = Epoch
  /\ jupMap = None
  /\ jupLoadedAt = 0
  /\ cache = << >>
  /\ pc = "idle"
  /\ req = NoReq
  /\ res = NoRes
  /\ loc = NoLoc
  /\ calls = {}
  /\ gp = GpIdle
  /\ gh = GhInit
  /\ rf = RfInit

NextV4 == Wallet4 \/ Buys4 \/ Tick4 \/ NextRequest
SpecV4 == InitV4 /\ [][NextV4]_vars

NextJup == JupCall \/ HttpTextCall \/ TickJup \/ NextRequest
SpecJup == Init /\ [][NextJup]_vars

(***************************************************************************)
(* Second variant: /wallet handlers in flight around getJupMap             *)
(* (src/index.js 316-338, 444-458).  Here jupMap holds the identity of the *)
(* Map object, rf.heap the contents of every Map object created so far; a  *)
(* handler moves from one await to the next in one step.                   *)
(***************************************************************************)
MaxMaps == 2

\* the contents of the current object are replaced, no object is created
NewMapMutInPlace(heap, m) ==
  IF IsSome(jupMap)
  THEN [heap |-> [heap EXCEPT ![Val(jupMap)] = m], ref |-> Val(jupMap)]
  ELSE [heap |-> Append(heap, m), ref |-> Len(heap) + 1]

\* const m = new Map(); for (const t of list) m.set(...): [heap, ref]
NewMap(heap, m) == [heap |-> Append(heap, m), ref |-> Len(heap) + 1]

\* the handler calls await getJupMap(): a fresh map is returned at once,
\* otherwise the handler waits for fetchJson
WalletCallsJup(p) ==
  /\ rf.procs[p].pc = "idle"
  /\ rf' = [rf EXCEPT !.procs[p] =
              IF JupFresh
              THEN [pc |-> "balance", ref |-> Val(jupMap),
                    got |-> Some(rf.heap[Val(jupMap)]), seen |-> None,
                    started |-> { "getJupMap" }]
              ELSE [pc |-> "fetching", ref |-> 0, got |-> None, seen |-> None,
                    started |-> { "getJupMap", "tokenlist" }]]
  /\ UNCHANGED << heliusKey, birdeyeKey, now, jupMap, jupLoadedAt, cache, pc, req, res,
                  loc, calls, gp, gh >>

\* fetchJson settles: the rest of getJupMap runs and returns jupMap
WalletGetsJup(p) ==
  /\ rf.procs[p].pc = "fetching"
  /\ \E fetch \in ListOutcomes :
       LET keep == ~fetch.ok /\ IsSome(jupMap)
           nm == IF keep THEN [heap |-> rf.heap, ref |-> Val(jupMap)]
                 ELSE NewMap(rf.heap, IF fetch.ok /\ fetch.isArray THEN fetch.list
                                      ELSE EmptyMap)
       IN  /\ keep \/ Len(rf.heap) < MaxMaps
           /\ jupMap' = Some(nm.ref)
           /\ jupLoadedAt' = IF fetch.ok THEN now ELSE jupLoadedAt
           /\ rf' = [heap |-> nm.heap,
                     procs |-> [rf.procs EXCEPT ![p] =
                                  [@ EXCEPT !.pc = "balance", !.ref = nm.ref,
                                            !.got = Some(nm.heap[nm.ref])]]]
  /\ UNCHANGED << heliusKey, birdeyeKey, now, cache, pc, req, res, loc, calls, gp, gh >>

\* conn.getBalance, then the token accounts and the prices
WalletFetches(p) ==
  /\ rf.procs[p].pc = "balance"
  /\ rf' = [rf EXCEPT !.procs[p] =
              [@ EXCEPT !.pc = "rows",
                        !.started = @ \cup { "getBalance", "getParsed", "getPrices" }]]
  /\ UNCHANGED << heliusKey, birdeyeKey, now, jupMap, jupLoadedAt, cache, pc, req, res,
                  loc, calls, gp, gh >>

\* tokensAll: jmap.get(t.mint) reads the object getJupMap returned
WalletLooksUp(p) ==
  /\ rf.procs[p].pc = "rows"
  /\ rf' = [rf EXCEPT !.procs[p] =
              [@ EXCEPT !.pc = "done", !.seen = Some(rf.heap[rf.procs[p].ref])]]
  /\ UNCHANGED << heliusKey, birdeyeKey, now, jupMap, jupLoadedAt, cache, pc, req, res,
                  loc, calls, gp, gh >>

\* res.json(...): the handler is over
WalletSent(p) ==
  /\ rf.procs[p].pc = "done"
  /\ rf' = [rf EXCEPT !.procs[p] = RfIdle]
  /\ UNCHANGED << heliusKey, birdeyeKey, now, jupMap, jupLoadedAt, cache, pc, req, res,
                  loc, calls, gp, gh >>

NextRefresh ==
  \/ \E p \in Procs : WalletCallsJup(p)
  \/ \E p \in Procs : WalletGetsJup(p)
  \/ \E p \in Procs : WalletFetches(p)
  \/ \E p \in Procs : WalletLooksUp(p)
  \/ \E p \in Procs : WalletSent(p)
  \/ TickJup
SpecRefresh == Init /\ [][NextRefresh]_vars

(***************************************************************************)
(* First variant: loadJup on its timer and the lookups of /wallet          *)
(* (src/index.js 39-53, 112), with jupMap and rf.heap as in SpecRefresh    *)
(***************************************************************************)
\* setInterval fires: loadJup waits for fetch("https://token.jup.ag/all")
LoadJupStarts(p) ==
  /\ rf.procs[p].pc = "idle"
  /\ rf' = [rf EXCEPT !.procs[p] = [RfIdle EXCEPT !.pc = "fetching",
                                                  !.started = { "tokenlist" }]]
  /\ UNCHANGED << heliusKey, birdeyeKey, now, jupMap, jupLoadedAt, cache, pc, req, res,
                  loc, calls, gp, gh >>

\* the fetch settles: jupMap = new Map(list.map(...)), or the catch
LoadJupSettles(p) ==
  /\ rf.procs[p].pc = "fetching"
  /\ \E fetch \in ListOutcomes :
       LET nm == IF fetch.ok /\ fetch.isArray THEN NewMap(rf.heap, fetch.list)
                 ELSE [heap |-> rf.heap, ref |-> Val(jupMap)]
       IN  /\ Len(nm.heap) <= MaxMaps
           /\ jupMap' = Some(nm.ref)
           /\ rf' = [heap |-> nm.heap, procs |-> [rf.procs EXCEPT ![p] = RfIdle]]
  /\ UNCHANGED << heliusKey, birdeyeKey, now, jupLoadedAt, cache, pc, req, res, loc,
                  calls, gp, gh >>

\* tokensRaw.map: jupMap.get(t.mint) reads the current object
WalletLooksUp1(p) ==
  /\ rf.procs[p].pc = "idle"
  /\ rf' = [rf EXCEPT !.procs[p] =
              [pc |-> "done", ref |-> Val(jupMap), got |-> Some(rf.heap[Val(jupMap)]),
               seen |-> Some(rf.heap[Val(jupMap)]), started |-> {}]]
  /\ UNCHANGED << heliusKey, birdeyeKey, now, jupMap, jupLoadedAt, cache, pc, req, res,
                  loc, calls, gp, gh >>

\* after await loadJup() at startup: the loaded list or the declared empty Map
InitRefresh1 ==
  /\ heliusKey = FALSE
  /\ birdeyeKey = TRUE
  /\ now = Epoch
  /\ jupMap = Some(1)
  /\ jupLoadedAt = 0
  /\ cache = << >>
  /\ pc = "idle"
  /\ req = NoReq
  /\ res = NoRes
  /\ loc = NoLoc
  /\ calls = {}
  /\ gp = GpIdle
  /\ gh = GhInit
  /\ \E m \in { EmptyMap, TokenList } : rf = [RfInit EXCEPT !.heap = << m >>]

NextRefresh1 ==
  \/ \E p \in Procs : LoadJupStarts(p)
  \/ \E p \in Procs : LoadJupSettles(p)
  \/ \E p \in Procs : WalletLooksUp1(p)
  \/ \E p \in Procs : WalletSent(p)
SpecRefresh1 == InitRefresh1 /\ [][NextRefresh1]_vars

NextPrices == GpCall \/ GpJup \/ GpBirdeye \/ GpReturn
SpecPrices == Init /\ [][NextPrices]_vars

(***************************************************************************)
(* The wallet snapshot: terms of the statements below                      *)
(***************************************************************************)
\* a /wallet request answered from a fresh computation of the snapshot
WalletDone == pc = "done" /\ loc.kind = "wallet"

\* a provider returned a finite positive price for the mint
PriceKnown(pm, m) == m \in DOMAIN pm /\ pm[m] > 0

\* the usdValue of a row of the snapshot: its price times its amount
UsdValue(pm, t) == pm[t.mint] * t.amount

\* a is b with some rows left out, the others in b's order
RECURSIVE IsSubSeq(_, _)
IsSubSeq(a, b) ==
  IF Len(a) = 0 THEN TRUE
  ELSE IF Len(b) = 0 THEN FALSE
  ELSE IF Head(a) = Head(b) THEN IsSubSeq(Tail(a), Tail(b))
       ELSE IsSubSeq(a, Tail(b))

\* the rows of the token accounts with a positive amount, in account order
RawOrder(accounts) ==
  LET pos == SelectSeq(accounts, LAMBDA a : a.amount > 0)
  IN  [k \in DOMAIN pos |-> << pos[k].mint, pos[k].amount >>]

\* number of batches the loop runs for n mints
NumBatches(n) == (n + BATCH - 1) \div BATCH

(***************************************************************************)
(* Claims about getPrices                                                  *)
(***************************************************************************)
\* C1: before truncation a row of the wallet snapshot is hidden if and only if
\* its price is known and its usdValue is below minUsd; a row whose price is
\* unknown is kept whatever minUsd is.
C1_VisibilityFilter ==
  WalletDone =>
    loc.filtered =
      SelectSeq(loc.tokensAll,
                LAMBDA t : ~(PriceKnown(loc.priceMap, t.mint)
                               /\ UsdValue(loc.priceMap, t) < loc.minUsd))

\* C2: when getPrices returns, every key of the returned mapping is one of the
\* mints that were passed in, whatever the providers answered.
C2_KeysSubsetOfRequested ==
  gp.pc = "done" => DOMAIN gp.out \subseteq Range(gp.uniq)

\* C3: a mint for which both providers returned a finite price during the call
\* holds the primary's price (the last one the primary gave), at every moment
\* of the call and in the mapping returned.
C3_PrimaryWins ==
  \A m \in DOMAIN gh.pLast \cap DOMAIN gh.sLast :
    m \in DOMAIN gp.out /\ gp.out[m] = gh.pLast[m]

\* the call has returned, and for some mint the two providers gave different prices
C3_Witness ==
  /\ gp.pc = "done"
  /\ \E m \in DOMAIN gh.pLast \cap DOMAIN gh.sLast : gh.pLast[m] # gh.sLast[m]

\* C4: no provider failure leaves getPrices by an exception; every price recorded
\* so far stays in out, and when the call returns every batch has been tried,
\* also after a failure in an earlier batch.
C4_NeverThrows ==
  /\ gp.pc # "thrown"
  /\ DOMAIN gh.pLast \subseteq DOMAIN gp.out
  /\ gp.pc = "done" => gh.jupCalls = NumBatches(Len(gp.uniq))

\* the call has returned although the primary failed for the first batch and the
\* secondary failed for some batch, with a price of another batch in the mapping
C4_Witness ==
  /\ gp.pc = "done"
  /\ << "jup", 0 >> \in gh.failed
  /\ \E f \in gh.failed : f[1] = "birdeye"
  /\ Len(gp.uniq) > BATCH
  /\ \E m \in DOMAIN gp.out : m \in Range(Chunk(gp.uniq, BATCH))

\* C5: a row of the returned snapshot whose price is unknown carries no price
\* and no usdValue; the absence is never coerced to zero.
C5_UnknownStaysAbsent ==
  WalletDone =>
    \A k \in DOMAIN res.body.tokens :
      LET t == res.body.tokens[k]
      IN  ~PriceKnown(loc.priceMap, t.mint) => t.price = None /\ t.usd = None

\* C6: the reported total of a successful snapshot is the native USD value
\* plus the sum of usdValue over exactly the rows returned in tokens, rows with
\* no usdValue counting 0.
C6_TotalOfReturnedRows ==
  WalletDone => loc.total = loc.nativeUsd + SumUsd(res.body.tokens)

\* C7: for a /wallet request with a non-empty address the effective maximum is
\* at least 1 and tokens is no longer than the effective maximum.
C7_MaxTokens ==
  WalletDone => loc.maxTokens >= 1 /\ Len(res.body.tokens) <= loc.maxTokens

\* C8: tokens is sorted in descending order of usdValue, every row of unknown
\* price comes after every row of known positive usdValue, and tokens keeps
\* the order of the sorted list of all rows.
C8_SortedUnknownLast ==
  WalletDone =>
    LET tokens == res.body.tokens
    IN  /\ \A i, j \in DOMAIN tokens :
             i < j => /\ OrZero(tokens[i].usd) >= OrZero(tokens[j].usd)
                      /\ ~(/\ ~PriceKnown(loc.priceMap, tokens[i].mint)
                           /\ PriceKnown(loc.priceMap, tokens[j].mint)
                           /\ OrZero(tokens[j].usd) > 0)
        /\ \A i, j \in DOMAIN loc.tokensAll :
             i < j => OrZero(loc.tokensAll[i].usd) >= OrZero(loc.tokensAll[j].usd)
        /\ IsSubSeq(loc.filtered, loc.tokensAll)
        /\ IsSubSeq(tokens, loc.filtered)

\* C8 witness: a snapshot whose rows arrived in another order than the sorted
\* one, with a row hidden, and an unknown-price row returned after a row of
\* known positive usdValue.
C8_Witness ==
  /\ WalletDone
  /\ Len(res.body.tokens) < Len(loc.tokensAll)
  /\ RawOrder(loc.accounts)
       # [k \in DOMAIN loc.tokensAll |-> << loc.tokensAll[k].mint, loc.tokensAll[k].amount >>]
  /\ \E i, j \in DOMAIN res.body.tokens :
       /\ i < j
       /\ PriceKnown(loc.priceMap, res.body.tokens[i].mint)
       /\ OrZero(res.body.tokens[i].usd) > 0
       /\ ~PriceKnown(loc.priceMap, res.body.tokens[j].mint)

\* C9: an exception raised in the /wallet pipeline after the address check is
\* answered with status 200 and a degraded snapshot: sol and solUsd 0, tokens
\* empty and a warning.
C9_DegradedSnapshot ==
  (pc = "done" /\ req.route = "wallet" /\ loc.kind = "caught") =>
    /\ res.status = 200
    /\ res.body.kind = "wallet"
    /\ res.body.sol = 0
    /\ res.body.solUsd = 0
    /\ res.body.tokens = << >>
    /\ IsSome(res.body.warning)

\* C10: /wallet and /buys answer with a status other than 200 only when the
\* address is missing or empty; the status is then 400 and no upstream call
\* has been made for the request.
C10_Non200OnlyMissingAddress ==
  (pc = "done" /\ res.status # 200) =>
    /\ Trim(req.address) = ""
    /\ res.status = 400
    /\ calls = {}

\* C11: a computed wallet snapshot is stored under the parameters of its
\* request, and a /wallet request whose parameters have a stored snapshot
\* younger than the cache TTL is answered with exactly that payload (its
\* timestamp included) and without any upstream call.
C11_CachedSnapshotIdempotent ==
  /\ [](WalletDone =>
          /\ CacheKey1(req) \in DOMAIN cache
          /\ cache[CacheKey1(req)] = [ts |-> now, data |-> res.body])
  /\ [][(/\ pc = "idle"
         /\ pc' = "done"
         /\ req'.route = "wallet"
         /\ CacheKey1(req') \in DOMAIN cache
         /\ now - cache[CacheKey1(req')].ts < CACHE_TTL_MS)
          => /\ res' = [status |-> 200, body |-> cache[CacheKey1(req')].data]
             /\ calls' = {}
             /\ cache' = cache]_vars

(***************************************************************************)
(* The list of buys: terms of the statements below                         *)
(***************************************************************************)
\* a /buys request answered from a fresh normalization of the provider's rows
BuysDone == pc = "done" /\ loc.kind = "buys"

\* the list the response carries (buys, or items in the first variant)
Returned == IF "buys" \in DOMAIN res.body THEN res.body.buys ELSE res.body.items

\* a recognized signal of the raw record says buy: its side string, or its
\* boolean flag
HasBuySignal(x) ==
  \/ IsSome(x.side) /\ Lower(Val(x.side)) = "buy"
  \/ IsSome(x.is_buy) /\ Val(x.is_buy) = TRUE

\* the handler treats the normalized record as a buy: its isBuy where it
\* computes one, every record where it computes none
TreatedAsBuy(b) == IF "isBuy" \in DOMAIN b THEN b.isBuy ELSE TRUE

\* C12: a raw record is treated as a buy if and only if one of its recognized
\* signals says buy, and every record /buys returns comes from a raw record
\* that carries a buy signal.
C12_BuyIffAnySignal ==
  BuysDone =>
    /\ \A k \in DOMAIN loc.rows :
         TreatedAsBuy(loc.mapped[k]) <=> HasBuySignal(loc.rows[k])
    /\ \A j \in DOMAIN Returned :
         \E k \in DOMAIN loc.rows :
           loc.rows[k].sig = Returned[j].sig /\ HasBuySignal(loc.rows[k])

\* the provider's record carries a USD value, or one could be resolved for it
\* from a price
ValueKnown(x, b) == IF "valueUsd" \in DOMAIN x THEN IsSome(b.usd) ELSE IsSome(x.usd)

\* C13: the value filter of /buys keeps a record treated as a buy if and only
\* if its usdValue is unknown or at least minUsd: a record of unknown value is
\* never removed, one of known value below minUsd always is.
C13_ValueFilter ==
  BuysDone =>
    \A k \in DOMAIN loc.rows :
      LET x == loc.rows[k]
          b == loc.mapped[k]
      IN  (\E j \in DOMAIN loc.kept : loc.kept[j].sig = b.sig)
            <=> (TreatedAsBuy(b) /\ (~ValueKnown(x, b) \/ Val(b.usd) >= loc.minUsd))

\* C14: for a /buys request with a non-empty address the effective limit lies
\* in 1..50, is 10 when no limit is given, and no more records than the
\* effective limit are returned.
C14_LimitRange ==
  BuysDone =>
    /\ loc.limit >= 1
    /\ loc.limit <= 50
    /\ (req.limit = None => loc.limit = 10)
    /\ Len(Returned) <= loc.limit

\* the response carries a warning string
HasWarning == "warning" \in DOMAIN res.body /\ IsSome(res.body.warning)

\* the list of buys of the response is there and is empty
EmptyBuys ==
  /\ \/ "buys" \in DOMAIN res.body
     \/ "items" \in DOMAIN res.body
  /\ Returned = << >>

\* C15: when the trade provider has no credential, or its endpoint and every
\* fallback fail, /buys answers 200 with an empty list of buys and a warning;
\* with no credential neither the trade provider nor the price provider is
\* called.
C15_UnconfiguredOrUnreachable ==
  (pc = "done" /\ req.route = "buys" /\ Trim(req.address) # "") =>
    /\ ~birdeyeKey =>
         /\ res.status = 200
         /\ EmptyBuys
         /\ HasWarning
         /\ calls \cap { "txns", "trades", "txs", "jup", "birdeye" } = {}
    /\ ("trades" \in DOMAIN loc /\ loc.trades = "failed") =>
         /\ res.status = 200
         /\ EmptyBuys
         /\ HasWarning

\* a call of getJupMap that went to the network and came back
JupDone == pc = "done" /\ loc.kind = "jup" /\ loc.fetched

\* the answer that ended the token list fetch
LastResp == loc.resps[loc.tries]

\* the refresh failed: the fetch threw, the status was no success, or the
\* body was no JSON or no list
RefreshFailed ==
  \/ loc.thrown
  \/ LastResp.status # 200
  \/ ~IsSome(LastResp.json)
  \/ ~Val(LastResp.json).isArray

\* C16: after a failed refresh of the token metadata the mapping is the one
\* held before it; only when none was held is an empty mapping installed.
C16_RefreshKeepsPrevious ==
  (JupDone /\ RefreshFailed) =>
    /\ IsSome(loc.before) => jupMap = loc.before
    /\ ~IsSome(loc.before) => jupMap = Some(EmptyMap)

\* the mints of the chunk that have no price in out
StillMissing(out, chunk) == SelectSeq(chunk, LAMBDA m : m \notin DOMAIN out)

\* C17: in each batch of getPrices the secondary provider is asked after the
\* primary, only when some mint of the batch still has no price and a
\* secondary credential is set, and for exactly the mints still missing; when
\* the primary priced the whole batch, or no credential is set, no secondary
\* request is made for the batch.
C17_SecondaryExactlyMissing ==
  /\ [](/\ ~birdeyeKey => gh.beCalls = << >>
        /\ Len(gh.beCalls) <= gh.jupCalls
        /\ \A k \in DOMAIN gh.beCalls : Len(gh.beCalls[k]) > 0
        /\ gp.pc = "birdeye" =>
             /\ gp.missing = StillMissing(gp.out, Chunk(gp.uniq, gp.i))
             /\ Len(gp.missing) > 0)
  /\ [][/\ Len(gh'.beCalls) > Len(gh.beCalls) =>
             /\ gp.pc = "birdeye"
             /\ birdeyeKey
             /\ gh'.beCalls =
                  Append(gh.beCalls, StillMissing(gp.out, Chunk(gp.uniq, gp.i)))
        /\ (gp.pc = "birdeye" /\ birdeyeKey) =>
             Len(gh'.beCalls) = Len(gh.beCalls) + 1
        /\ gp.pc = "jup" =>
             (gp'.pc = "birdeye"
                <=> StillMissing(gp'.out, Chunk(gp.uniq, gp.i)) # << >>)]_vars

\* C17 witness: a call over two batches has returned with one secondary
\* request: one of the two mints of the first batch, the other having been
\* priced by the primary, and none for the second batch.
C17_Witness ==
  /\ gp.pc = "done"
  /\ birdeyeKey
  /\ Len(gp.uniq) > BATCH
  /\ Len(gh.beCalls) = 1
  /\ Len(gh.beCalls[1]) = 1
  /\ gh.beCalls[1][1] \in Range(Chunk(gp.uniq, 0))
  /\ \E m \in Range(Chunk(gp.uniq, 0)) : m \in DOMAIN gh.pLast /\ m # gh.beCalls[1][1]

\* one call through a retrying fetch has ended and did reach the network
HttpCallDone == pc = "done" /\ "tries" \in DOMAIN loc /\ loc.tries > 0

\* the status the server gave to the k-th attempt (0: the fetch itself failed)
StatusOf(k) == IF "resps" \in DOMAIN loc THEN loc.resps[k].status ELSE loc.attempts[k]

\* 429, 5xx or a network-level failure
RetryableStatus(s) == s = 0 \/ s = 429 \/ s >= 500

\* C18: a call through a retrying fetch makes at most two attempts: a 429, a
\* 5xx or a network failure is retried once and then surfaces as a failure;
\* any other answer ends the call at the first attempt.
C18_AtMostOneRetry ==
  HttpCallDone =>
    /\ loc.tries <= 2
    /\ ~RetryableStatus(StatusOf(1)) => (loc.tries = 1 /\ ~loc.thrown)
    /\ RetryableStatus(StatusOf(1)) =>
         /\ loc.tries = 2
         /\ RetryableStatus(StatusOf(2)) <=> loc.thrown

\* the accounts a token program's query gave to the handler: none when the
\* query failed or timed out
Given(rpc) == IF rpc.ok THEN rpc.value ELSE << >>

\* every account of the list with a mint and a positive amount has its row in
\* the snapshot
Appear(accts) ==
  \A k \in DOMAIN accts :
    (accts[k].mint # "" /\ accts[k].amount > 0) =>
      \E j \in DOMAIN loc.tokensAll :
        /\ loc.tokensAll[j].mint = accts[k].mint
        /\ loc.tokensAll[j].amount = accts[k].amount

\* C19: in the balance fetch of /wallet a failed native-balance call gives the
\* native balance 0 and the token queries still run; a failed token-account
\* query of one program gives no account for that program only, and the
\* accounts of the other program still appear in the snapshot.
C19_SubFetchesIndependent ==
  (WalletDone /\ "rpc" \in DOMAIN loc) =>
    /\ res.status = 200
    /\ res.body.warning = None
    /\ ~loc.rpc.balance.ok =>
         /\ res.body.sol = 0
         /\ "getParsed:legacy" \in calls
         /\ res.body.includeToken22 => "getParsed:t22" \in calls
         /\ loc.accounts = Given(loc.rpc.legacy) \o Given(loc.rpc.t22)
    /\ ~loc.rpc.legacy.ok =>
         /\ loc.accounts = Given(loc.rpc.t22)
         /\ Appear(Given(loc.rpc.t22))
    /\ ~loc.rpc.t22.ok =>
         /\ loc.accounts = Given(loc.rpc.legacy)
         /\ Appear(Given(loc.rpc.legacy))

\* C19 witness: the balance call and the legacy program's query failed, and
\* the Token-2022 account is a row of the answer.
C19_Witness ==
  /\ WalletDone
  /\ "rpc" \in DOMAIN loc
  /\ ~loc.rpc.balance.ok
  /\ ~loc.rpc.legacy.ok
  /\ loc.rpc.t22.ok
  /\ Len(loc.rpc.t22.value) > 0
  /\ res.body.sol = 0
  /\ \E j \in DOMAIN res.body.tokens :
       res.body.tokens[j].mint = loc.rpc.t22.value[1].mint

\* a /buys request has ended whose primary trade endpoint failed or gave
\* data that is no array
PrimaryUnusable ==
  /\ pc = "done"
  /\ req.route = "buys"
  /\ "trades" \in DOMAIN loc
  /\ loc.trades # "ok"

\* C20: when the primary trade endpoint of /buys fails or returns data that is
\* no array, exactly one alternate endpoint is attempted; when that fails too
\* or gives no array the rows are the empty list, and no exception reaches the
\* caller.
C20_OneAlternateThenEmpty ==
  PrimaryUnusable =>
    /\ Cardinality(calls \cap { "trades", "txns" }) = 1
    /\ "txs" \in calls
    /\ res.status = 200
    /\ loc.trades # "fallback" => Returned = << >>

\* the positive price available for a raw record: the record's own, else the
\* one the price resolver returned for the record's mint
PriceFor(x) ==
  IF IsSome(x.priceUsd) /\ Val(x.priceUsd) > 0 THEN x.priceUsd
  ELSE IF PriceKnown(loc.priceMap, x.mint) THEN Some(loc.priceMap[x.mint])
  ELSE None

\* C21: the usdValue of a trade record is the explicit value of the record
\* when it carries one; otherwise it is amount times price when the record has
\* an amount and a positive price is available from the record or from the
\* price resolver; in every other case it stays absent and does not become 0.
C21_UsdValueResolution ==
  (BuysDone /\ "priceMap" \in DOMAIN loc) =>
    \A k \in DOMAIN loc.rows :
      LET x == loc.rows[k]
          b == loc.mapped[k]
      IN  IF IsSome(x.valueUsd) THEN b.usd = x.valueUsd
          ELSE IF IsSome(x.amount) /\ IsSome(PriceFor(x))
               THEN b.usd = Some(Val(x.amount) * Val(PriceFor(x)))
               ELSE b.usd = None

\* the response of the finished request is a payload taken from the cache
ServedFromCache ==
  /\ pc = "done"
  /\ \/ loc.kind = "cached"
     \/ loc.kind = "buys" /\ "tries" \in DOMAIN loc /\ loc.tries = 0

\* the key under which the handler looks the request up
LookupKey(q) ==
  IF q.route = "wallet" THEN CacheKey1(q)
  ELSE IF "minUsd" \in DOMAIN q THEN BuysKey1(q)
  ELSE << "be", "/defi/trades", q.address,
          IF IsSome(q.type) THEN Val(q.type) ELSE "token",
          Min(NumberOr(q.limit, 10), 100) >>

\* the time to live of a cache entry and the time since it was stored
TtlOf(e) == IF "ts" \in DOMAIN e THEN CACHE_TTL_MS ELSE BE_TTL_MS
StoredAgo(e) == IF "ts" \in DOMAIN e THEN now - e.ts ELSE now - (e.exp - BE_TTL_MS)

\* C22: the response cache serves a payload only when it was stored under the
\* same key less than the TTL ago; a lookup past expiry is a miss, the request
\* goes upstream, and a successful fetch overwrites the entry.
C22_NeverServesExpired ==
  [][(pc = "idle" /\ pc' = "done" /\ req'.route \in { "wallet", "buys" }) =>
       LET k == LookupKey(req')
       IN  /\ ServedFromCache' =>
                /\ k \in DOMAIN cache
                /\ StoredAgo(cache[k]) < TtlOf(cache[k])
           /\ (k \in DOMAIN cache /\ StoredAgo(cache[k]) >= TtlOf(cache[k])
                 /\ res'.status = 200) =>
                /\ calls' # {}
                /\ k \in DOMAIN cache'
                /\ cache'[k] # cache[k]]_vars

\* C23: however /wallet handlers and refreshes of the token metadata
\* interleave, several refreshes in flight included, a lookup reads the whole
\* mapping getJupMap returned to its handler: the shared mapping is replaced
\* by one assignment of a newly built object, and no object is changed once
\* it exists.
C23_MappingReplacedWhole ==
  /\ [](\A p \in Procs :
          IsSome(rf.procs[p].seen) =>
            /\ rf.procs[p].seen = rf.procs[p].got
            /\ Val(rf.procs[p].seen) \in { EmptyMap, TokenList })
  /\ [][/\ \A id \in DOMAIN rf.heap : rf.heap'[id] = rf.heap[id]
        /\ jupMap' # jupMap =>
             /\ Val(jupMap') \notin DOMAIN rf.heap
             /\ Val(jupMap') \in DOMAIN rf.heap']_vars

\* C23 witness: two refreshes were in flight at once, the second has replaced
\* the mapping, and the handler of the first has looked up in the mapping it
\* was given, which is not the current one.
C23_Witness ==
  \E p \in Procs :
    /\ rf.procs[p].pc = "done"
    /\ "tokenlist" \in rf.procs[p].started
    /\ rf.procs[p].ref # Val(jupMap)
    /\ Val(rf.procs[p].seen) # rf.heap[Val(jupMap)]
    /\ jupLoadedAt = Epoch

\* C24: a refresh of the token metadata never blocks a request: while the
\* token list fetch of a /wallet handler is in flight the handler has already
\* started its balance fetch, and it never sits waiting for the token list
\* alone.
C24_RefreshNeverBlocks ==
  \A p \in Procs :
    rf.procs[p].pc = "fetching" => "getBalance" \in rf.procs[p].started

\* C25: token accounts are not merged by mint: an owner holding the same mint
\* in two accounts gets two rows with their own amounts, not one row with the
\* sum (looked at when maxTokens is above the number of accounts, so that no
\* row is cut).
C25_NoDedupByMint ==
  (WalletDone /\ "accounts" \in DOMAIN loc) =>
    LET held == SelectSeq(loc.accounts, LAMBDA a : a.mint # "" /\ a.amount > 0)
    IN  Len(held) < loc.maxTokens =>
          \A k \in DOMAIN held :
            LET accts == { i \in DOMAIN held : held[i].mint = held[k].mint }
                rows == { j \in DOMAIN loc.tokensAll :
                            loc.tokensAll[j].mint = held[k].mint }
            IN  /\ Cardinality(rows) = Cardinality(accts)
                /\ \E j \in rows : loc.tokensAll[j].amount = held[k].amount

\* C26: with a secondary credential, every requested mint for which the
\* primary provider returned no price during the call (it left the mint out
\* or its call failed) and for which the secondary provider returned a finite
\* price is in the returned mapping with the secondary provider's price.
C26_GapFilled ==
  (gp.pc = "done" /\ birdeyeKey) =>
    \A m \in Range(gp.uniq) :
      (m \notin DOMAIN gh.pLast /\ m \in DOMAIN gh.sLast) =>
        /\ m \in DOMAIN gp.out
        /\ gp.out[m] = gh.sLast[m]

\* C26 witness: the primary call of the first batch failed, the secondary
\* provider priced a mint of that batch, and the call has returned the mint
\* with that price.
C26_Witness ==
  /\ gp.pc = "done"
  /\ birdeyeKey
  /\ << "jup", 0 >> \in gh.failed
  /\ \E m \in Range(Chunk(gp.uniq, 0)) :
       /\ m \notin DOMAIN gh.pLast
       /\ m \in DOMAIN gh.sLast
       /\ m \in DOMAIN gp.out
       /\ gp.out[m] \in SecondaryPx

\* a /wallet request has been answered with a snapshot, normal or degraded
SnapshotSent ==
  pc = "done" /\ req.route = "wallet" /\ res.status = 200 /\ res.body.kind = "wallet"

\* C27: in every /wallet snapshot, normal or degraded, counts.tokensVisible is
\* at most counts.tokensAll and is the length of tokens; when no row has a
\* negative usd value, totals.visible is at most totals.all and both are at
\* least the native USD value.
C27_CountsAndTotals ==
  (SnapshotSent /\ "counts" \in DOMAIN res.body) =>
    LET b == res.body
        all == IF "tokensAll" \in DOMAIN loc THEN loc.tokensAll ELSE << >>
    IN  /\ b.counts.tokensVisible <= b.counts.tokensAll
        /\ b.counts.tokensVisible = Len(b.tokens)
        /\ (\A k \in DOMAIN all : OrZero(all[k].usd) >= 0) =>
             /\ b.totals.visible <= b.totals.all
             /\ b.totals.visible >= b.solUsd
             /\ b.totals.all >= b.solUsd

\* C27 witness: a normal snapshot that hides a row with a value, with a native
\* balance worth something.
C27_Witness ==
  /\ SnapshotSent
  /\ "counts" \in DOMAIN res.body
  /\ res.body.warning = None
  /\ Len(res.body.tokens) >= 1
  /\ res.body.counts.tokensVisible < res.body.counts.tokensAll
  /\ res.body.totals.visible < res.body.totals.all
  /\ res.body.solUsd > 0

=========================================================================
